---- MODULE Spec2Model ----
(***************************************************************************)
(* Model of the canopy-cover mask pipeline of                              *)
(* src/canopy-cover-enhancement/terra_ganEnhancement.py (gen_cc_enhanced   *)
(* and the functions it calls).                                            *)
(*                                                                         *)
(* Images.  An image is a record [w, px]: px is the sequence of its rows,  *)
(* top to bottom, and every row holds the same colour in each of its w     *)
(* columns.  On such images every array operation of the source acts row   *)
(* by row: a 3x3 box blur, a diamond dilation and connected-component      *)
(* labelling see the same values left and right of a pixel, so a component *)
(* is a maximal run of rows and its pixel count is (rows * w).  The width  *)
(* is what lets regions reach the source's area thresholds (200 ...        *)
(* 100000 pixels) with a handful of rows.                                  *)
(*                                                                         *)
(* Numbers.  Rates and means are kept as exact fractions [num, den];       *)
(* the comparisons of the source are made by cross-multiplication.         *)
(***************************************************************************)
EXTENDS Integers, Sequences, FiniteSets

VARIABLES
    pc,            \* position in gen_cc_enhanced / MAC / gen_mask / gen_saturated_mask
    args,          \* values parsed by add_local_arguments (environment / command line)
    img,           \* the image read from input_path
    over_rate,     \* check_saturation's first result
    low_rate,      \* check_saturation's second result
    aveValue,      \* check_brightness's result
    im,            \* MAC: the grayscale image
    im1,           \* MAC: the copy shifted by one row
    im2,           \* MAC: the copy shifted by scales[s] rows
    s,             \* MAC: index of the next scale, 1-based
    FM,            \* MAC: per-scale means, as the column sums of dif
    quality_score, \* getImageQuality's result
    binMask,       \* the mask under construction
    stages,        \* the stages applied so far, with the thresholds they used
    result,        \* what gen_cc_enhanced returned
    unit,          \* a direct call of over_saturation_pocess, of
                   \* saturated_pixel_classification or of check_saturation:
                   \* its arguments and result
    check_md,      \* transformer.py: the request (its list of files, and what
                   \* the libraries return for each file and plot)
    file_index,    \* perform_process: position of one_file in list_files
    plot_index,    \* perform_process: position of plot_name in overlap_plots
    geo_file,      \* perform_process: meantemp_geostreams.csv
    bety_file,     \* perform_process: meantemp.csv
    num_files,
    number_empty_plots,
    total_plots_calculated,
    total_files,
    processed_plots,
    ret            \* what check_continue or perform_process returned

\* the variables of transformer.py
tvars == <<check_md, file_index, plot_index, geo_file, bety_file, num_files,
           number_empty_plots, total_plots_calculated, total_files,
           processed_plots, ret>>

vars == <<pc, args, img, over_rate, low_rate, aveValue, im, im1, im2, s, FM,
          quality_score, binMask, stages, result, unit, tvars>>

(***************************************************************************)
(* Module constants of the source.                                         *)
(***************************************************************************)
SATURATE_THRESHOLD == 245
MAX_PIXEL_VAL == 255
SMALL_AREA_THRESHOLD == 200

\* check_saturation: "20 is a threshold to classify low pixel value"
LOW_PIXEL_VAL == 20

\* saturated_pixel_classification: "if the area is too large, do not add it"
MAX_REGION_AREA == 100000

\* gen_cc_enhanced(input_path, kernelSize=3)
kernelSize == 3

\* MAC: scales = np.array([2, 3, 5])
scales == <<2, 3, 5>>

(***************************************************************************)
(* Bounds of the model.                                                    *)
(***************************************************************************)
\* most bands (runs of equally coloured rows) an input image is built from
MaxBands == 3

\* MAC's slice assignment im2[0:h-5] = im[5:h] needs h >= 5 rows; shorter
\* images (2..4 rows) make numpy raise before any gate is evaluated.
MinRows == 5

(***************************************************************************)
(* Generic helpers.                                                        *)
(***************************************************************************)
Rows(a) == Len(a.px)

Size(a) == Rows(a) * a.w

RECURSIVE SumTo(_, _)
\* f[1] + ... + f[n]
SumTo(f, n) == IF n = 0 THEN 0 ELSE f[n] + SumTo(f, n - 1)

SumSeq(f) == SumTo(f, Len(f))

\* number of rows of p that are set
CountRows(p) == Cardinality({i \in 1..Len(p) : p[i]})

\* round half to even of n / d (d > 0), as np.round does
RoundHalfEven(n, d) ==
    LET q == n \div d
        r == n % d
    IN  IF 2 * r < d THEN q
        ELSE IF 2 * r > d THEN q + 1
        ELSE IF q % 2 = 0 THEN q ELSE q + 1

(***************************************************************************)
(* Colours (b, g, r as cv2.imread delivers them) and the input images.     *)
(***************************************************************************)
Colour(b, g, r) == [b |-> b, g |-> g, r |-> r]

Plant == Colour(40, 140, 60)      \* g > r, gray 105
Soil  == Colour(60, 90, 120)      \* g <= r, gray 96
White == Colour(250, 250, 250)    \* over-saturated, gray 250
Dark  == Colour(10, 10, 10)       \* gray 10 < 20
PaleGreen == Colour(250, 255, 250) \* g > r and over-saturated, gray 253

Palette == {Plant, Soil, White, Dark, PaleGreen}

\* rows a band may have: a single row, a short band, a long band
BandRows == {1, 3, 17}

\* widths: 150 puts 1..26 rows around the thresholds 200, 300, 500, 3000 and
\* 4000; 50000 puts 2 rows exactly at 100000
Widths == {150, 50000}

Band(colour, rows) == [colour |-> colour, rows |-> rows]

Bands == {Band(c, n) : c \in Palette, n \in BandRows}

RECURSIVE Expand(_)
\* the rows of a sequence of bands
Expand(bands) ==
    IF bands = <<>> THEN <<>>
    ELSE [i \in 1..Head(bands).rows |-> Head(bands).colour] \o Expand(Tail(bands))

BandSeqs == UNION {[1..k -> Bands] : k \in 1..MaxBands}

BandImages ==
    {[w |-> w, px |-> Expand(bs)] : w \in Widths,
        bs \in {b \in BandSeqs : Len(Expand(b)) >= MinRows}}

Gray(v) == Colour(v, v, v)

\* images that sit exactly on a gate: mean brightness 195, mean brightness
\* 30, a tenth of the pixels below 20, quality score 13
Fixtures ==
    {[w |-> 150, px |-> Expand(bs)] : bs \in
        {<<Band(Gray(250), 3), Band(Gray(140), 3)>>,
         <<Band(Gray(40), 3), Band(Gray(20), 3)>>,
         <<Band(Plant, 9), Band(Dark, 1)>>,
         <<Band(Gray(117), 17), Band(Gray(116), 4)>>}}

Images == BandImages \cup Fixtures

(***************************************************************************)
(* Array primitives (numpy / cv2 / skimage.morphology) on such images.     *)
(***************************************************************************)
\* an array of w equal columns; the rows are built once, as a tuple
Arr(w, px) == [w |-> w, px |-> px \o <<>>]

\* np.zeros_like(a)
zeros_like(a) == Arr(a.w, [i \in 1..Rows(a) |-> 0])

\* out = zeros_like(a); out[m] = v
Fill(a, m, v) == Arr(a.w, [i \in 1..Rows(a) |-> IF m.px[i] THEN v ELSE 0])

Greater(a, t) == Arr(a.w, [i \in 1..Rows(a) |-> a.px[i] > t])

Less(a, t) == Arr(a.w, [i \in 1..Rows(a) |-> a.px[i] < t])

And(m, n) == Arr(m.w, [i \in 1..Rows(m) |-> m.px[i] /\ n.px[i]])

Or(m, n) == Arr(m.w, [i \in 1..Rows(m) |-> m.px[i] \/ n.px[i]])

Not(m) == Arr(m.w, [i \in 1..Rows(m) |-> ~m.px[i]])

\* (m).any()
Any(m) == \E i \in 1..Rows(m) : m.px[i]

\* np.sum(m), np.count_nonzero(m) of a boolean array: pixels, not rows
CountTrue(m) == CountRows(m.px) * m.w

\* cv2.cvtColor(img, cv2.COLOR_BGR2GRAY) of one pixel: 8-bit fixed point
\* Y = 0.299 R + 0.587 G + 0.114 B, rounded
BGR2GRAY(c) == (c.b * 1868 + c.g * 9617 + c.r * 4899 + 8192) \div 16384

cvtColor(a) == Arr(a.w, [i \in 1..Rows(a) |-> BGR2GRAY(a.px[i])])

\* first and last row of the run of equal values that holds row i
RunLo(p, i) == CHOOSE j \in 1..i :
    /\ \A k \in j..i : p[k] = p[i]
    /\ (j = 1 \/ p[j - 1] # p[i])

RunHi(p, i) == CHOOSE j \in i..Len(p) :
    /\ \A k \in i..j : p[k] = p[i]
    /\ (j = Len(p) \/ p[j + 1] # p[i])

\* pixel count of the connected component that holds row i
ComponentSize(m, i) == (RunHi(m.px, i) - RunLo(m.px, i) + 1) * m.w

\* skimage.morphology.remove_small_objects(m, min_size): components with
\* fewer than min_size pixels are cleared
remove_small_objects(m, min_size) ==
    Arr(m.w, [i \in 1..Rows(m) |-> m.px[i] /\ ~(ComponentSize(m, i) < min_size)])

\* skimage.morphology.remove_small_holes(m, area_threshold): the small
\* objects of the complement are set
remove_small_holes(m, area_threshold) ==
    Not(remove_small_objects(Not(m), area_threshold))

\* skimage.morphology.binary_dilation(m, morphology.diamond(d))
binary_dilation(m, d) ==
    Arr(m.w, [i \in 1..Rows(m) |->
        \E j \in 1..Rows(m) : m.px[j] /\ j - i <= d /\ i - j <= d])

\* skimage.morphology.label(a, connectivity=2, return_num=True): the non-zero
\* components numbered 1..num in raster order, 0 elsewhere
IsRegionStart(a, i) == a.px[i] # 0 /\ (i = 1 \/ a.px[i - 1] = 0)

label(a) ==
    LET starts == {i \in 1..Rows(a) : IsRegionStart(a, i)}
        lab == [i \in 1..Rows(a) |->
                   IF a.px[i] = 0 THEN 0
                   ELSE Cardinality({j \in starts : j <= i})]
    IN  <<Arr(a.w, lab), Cardinality(starts)>>

LabelEquals(label_img, i) ==
    Arr(label_img.w, [k \in 1..Rows(label_img) |-> label_img.px[k] = i])

\* cv2 border mode BORDER_REFLECT_101 for an axis of n pixels
Reflect101(p, n) ==
    IF n = 1 THEN 1
    ELSE LET m == 2 * (n - 1)
             q == (p - 1) % m
         IN  IF q < n THEN q + 1 ELSE m - q + 1

\* cv2.blur(a, (k, k)): the mean of the k x k box, rounded; the k columns of
\* the box hold the same value
blur(a, k) ==
    LET half == (k - 1) \div 2
        box(i) == SumTo([j \in 1..k |-> k * a.px[Reflect101(i - half + j - 1, Rows(a))]], k)
    IN  Arr(a.w, [i \in 1..Rows(a) |-> (2 * box(i) + k * k) \div (2 * k * k)])

(***************************************************************************)
(* The functions of terra_ganEnhancement.py.                               *)
(***************************************************************************)
Rate(num, den) == [num |-> num, den |-> den]

\* add_local_arguments: the three options and their defaults
DefaultArgs ==
    [saturate_threshold |-> 245, max_pixel_val |-> 255, small_area_threshold |-> 200]

\* gen_plant_mask returning the blurred mask, the second threshold forgotten
gen_plant_mask_blurred(colorImg, k) ==
    LET sub_img == Arr(colorImg.w,
                       [i \in 1..Rows(colorImg) |->
                           colorImg.px[i].g - colorImg.px[i].r - 0 > 0])
    IN  blur(Fill(colorImg, sub_img, MAX_PIXEL_VAL), k)

gen_plant_mask(colorImg, k) ==
    LET sub_img == Arr(colorImg.w,
                       [i \in 1..Rows(colorImg) |->
                           colorImg.px[i].g - colorImg.px[i].r - 0 > 0])
        mask    == Fill(colorImg, sub_img, MAX_PIXEL_VAL)
        pix     == blur(mask, k)
        sub_mask == Greater(pix, 128)
    IN  Fill(colorImg, sub_mask, MAX_PIXEL_VAL)

remove_small_area_mask(maskImg, min_area_size) ==
    LET mask_array == Greater(maskImg, 0)
        rel_array  == remove_small_objects(mask_array, min_area_size)
    IN  Fill(maskImg, rel_array, MAX_PIXEL_VAL)

remove_small_holes_mask(maskImg, max_hole_size) ==
    LET mask_array == Greater(maskImg, 0)
        rel_array  == remove_small_holes(mask_array, max_hole_size)
    IN  Fill(maskImg, rel_array, MAX_PIXEL_VAL)

\* the loop body without the test of the region's size
ClassifyStepAnySize(label_img, baseMask, rel_mask, i) ==
    LET x == LabelEquals(label_img, i)
    IN  IF ~Any(And(x, baseMask)) THEN rel_mask ELSE Or(rel_mask, x)

\* the loop body without the test of the overlap with the base mask
ClassifyStepAnyRegion(label_img, baseMask, rel_mask, i) ==
    LET x == LabelEquals(label_img, i)
    IN  IF CountTrue(x) > MAX_REGION_AREA THEN rel_mask ELSE Or(rel_mask, x)

\* one pass of the loop body of saturated_pixel_classification for label i
ClassifyStep(label_img, baseMask, rel_mask, i) ==
    LET x == LabelEquals(label_img, i)
    IN  IF CountTrue(x) > MAX_REGION_AREA THEN rel_mask
        ELSE IF ~Any(And(x, baseMask)) THEN rel_mask
        ELSE Or(rel_mask, x)

RECURSIVE ClassifyLoop(_, _, _, _, _)
\* for i in range(i, stop): ...
ClassifyLoop(label_img, baseMask, rel_mask, i, stop) ==
    IF i >= stop THEN rel_mask
    ELSE ClassifyLoop(label_img, baseMask,
                      ClassifyStep(label_img, baseMask, rel_mask, i), i + 1, stop)

\* the labelled image and region count saturated_pixel_classification works on
LabelSaturated(gray_img, saturatedMask, dilateSize) ==
    label(Fill(gray_img, binary_dilation(saturatedMask, dilateSize), MAX_PIXEL_VAL))

\* the loop run over every label, range(1, num + 1)
saturated_pixel_classification_all(gray_img, baseMask, saturatedMask, dilateSize) ==
    LET lab == LabelSaturated(gray_img, saturatedMask, dilateSize)
    IN  ClassifyLoop(lab[1], baseMask, baseMask, 1, lab[2] + 1)

saturated_pixel_classification(gray_img, baseMask, saturatedMask, dilateSize) ==
    LET lab == LabelSaturated(gray_img, saturatedMask, dilateSize)
    IN  ClassifyLoop(lab[1], baseMask, baseMask, 1, lab[2])

\* mask_1 with the base mask taken above the threshold instead of under it
RefinedBaseAbove(rgb_img, init_mask, threshold) ==
    LET gray_img == cvtColor(rgb_img)
        mask_0   == Greater(gray_img, threshold)
        src_mask_array == Greater(init_mask, 0)
    IN  remove_small_objects(And(src_mask_array, mask_0), SMALL_AREA_THRESHOLD)

\* mask_1 of over_saturation_pocess: the base mask under the threshold,
\* small objects removed
RefinedBase(rgb_img, init_mask, threshold) ==
    LET gray_img == cvtColor(rgb_img)
        mask_0   == Less(gray_img, threshold)
        src_mask_array == Greater(init_mask, 0)
    IN  remove_small_objects(And(src_mask_array, mask_0), SMALL_AREA_THRESHOLD)

\* mask_over of over_saturation_pocess, small objects removed
OverMask(rgb_img, threshold) ==
    remove_small_objects(Greater(cvtColor(rgb_img), threshold), SMALL_AREA_THRESHOLD)

over_saturation_pocess(rgb_img, init_mask, threshold) ==
    LET gray_img == cvtColor(rgb_img)
        mask_1   == RefinedBase(rgb_img, init_mask, threshold)
        mask_over == OverMask(rgb_img, threshold)
        rel_mask == saturated_pixel_classification(gray_img, mask_1, mask_over, 1)
    IN  Fill(gray_img, rel_mask, MAX_PIXEL_VAL)

\* the stages of gen_saturated_mask and of gen_mask, as (operation, parameter)
Stage(op, arg) == [op |-> op, arg |-> arg]

gen_saturated_mask(a, k) ==
    LET m1 == gen_plant_mask(a, k)
        m2 == remove_small_area_mask(m1, 500)
        m3 == remove_small_holes_mask(m2, 300)
        m4 == over_saturation_pocess(a, m3, SATURATE_THRESHOLD)
    IN  remove_small_holes_mask(m4, 4000)

gen_mask(a, k) ==
    LET m1 == gen_plant_mask(a, k)
        m2 == remove_small_area_mask(m1, SMALL_AREA_THRESHOLD)
    IN  remove_small_holes_mask(m2, 3000)

\* cv2.bitwise_and(img, img, mask=binMask)
gen_rgb_mask(a, mask) ==
    Arr(a.w, [i \in 1..Rows(a) |->
        IF mask.px[i] # 0 THEN a.px[i] ELSE Colour(0, 0, 0)])

\* np.matrix.round(rgb2gray(.)) of one pixel of the PIL (r, g, b) array
rgb2gray(c) == RoundHalfEven(2989 * c.r + 5870 * c.g + 1140 * c.b, 10000)

\* dst[0 : h - k, :] = src[k : h, :]
ShiftRows(dst, src, k) ==
    [i \in 1..Len(dst) |-> IF i <= Len(dst) - k THEN src[i + k] ELSE dst[i]]

\* dif = im * (im1 - im2), summed over one column
DifSum(a, a1, a2) == SumTo([i \in 1..Len(a) |-> a[i] * (a1[i] - a2[i])], Len(a))

\* check_saturation with both thresholds counted in
check_saturation_inclusive(a) ==
    LET grayImg == cvtColor(a)
        m1 == Not(Less(grayImg, SATURATE_THRESHOLD))
        m2 == Not(Greater(grayImg, LOW_PIXEL_VAL))
    IN  <<Rate(CountTrue(m1), Size(grayImg)), Rate(CountTrue(m2), Size(grayImg))>>

check_saturation(a) ==
    LET grayImg == cvtColor(a)
        m1 == Greater(grayImg, SATURATE_THRESHOLD)
        m2 == Less(grayImg, LOW_PIXEL_VAL)
    IN  <<Rate(CountTrue(m1), Size(grayImg)), Rate(CountTrue(m2), Size(grayImg))>>

check_brightness(a) ==
    LET grayImg == cvtColor(a)
    IN  Rate(SumSeq(grayImg.px) * a.w, Size(grayImg))

\* the gate with every bound taken inclusively
LowQualityInclusive(low, ave, quality) ==
    \/ 10 * low.num >= low.den
    \/ ave.num <= 30 * ave.den
    \/ ave.num >= 195 * ave.den
    \/ quality.num <= 13 * quality.den

\* "if low_rate > 0.1 or aveValue < 30 or aveValue > 195 or quality_score < 13"
LowQuality(low, ave, quality) ==
    \/ 10 * low.num > low.den
    \/ ave.num < 30 * ave.den
    \/ ave.num > 195 * ave.den
    \/ quality.num < 13 * quality.den

\* the routing test taken inclusively
SaturatedInclusive(over) == 100 * over.num >= 15 * over.den

\* "if over_rate > 0.15"
Saturated(over) == 100 * over.num > 15 * over.den

(***************************************************************************)
(* gen_cc_enhanced as a state machine.                                     *)
(***************************************************************************)
NoRate == Rate(0, 0)

NoArr == Arr(0, <<>>)

Pending == [kind |-> "pending", ratio |-> NoRate, binMask |-> NoArr, rgbMask |-> NoArr]

\* return None, None, None
ReturnNone == [kind |-> "None", ratio |-> NoRate, binMask |-> NoArr, rgbMask |-> NoArr]

\* return ratio, binMask, rgbMask
ReturnTuple(ratio, mask, rgbMask) ==
    [kind |-> "tuple", ratio |-> ratio, binMask |-> mask, rgbMask |-> rgbMask]

\* nothing of transformer.py has run
TransformerIdle ==
    /\ check_md = [has_list_files |-> FALSE, list_files |-> <<>>]
    /\ file_index = 0
    /\ plot_index = 0
    /\ geo_file = [open |-> FALSE, lines |-> <<>>]
    /\ bety_file = [open |-> FALSE, lines |-> <<>>]
    /\ num_files = 0
    /\ number_empty_plots = 0
    /\ total_plots_calculated = 0
    /\ total_files = 0
    /\ processed_plots = 0
    /\ ret = [kind |-> "pending"]

NoUnit ==
    [fn |-> "none", rgb_img |-> NoArr, baseMask |-> NoArr, saturatedMask |-> NoArr,
     dilateSize |-> 0, out |-> NoArr, done |-> FALSE]

\* img = cv2.imread(input_path), the options already parsed
InitWith(images, argsets) ==
    /\ img \in images
    /\ args \in argsets
    /\ pc = "check_saturation"
    /\ over_rate = NoRate
    /\ low_rate = NoRate
    /\ aveValue = NoRate
    /\ im = <<>>
    /\ im1 = <<>>
    /\ im2 = <<>>
    /\ s = 0
    /\ FM = <<>>
    /\ quality_score = NoRate
    /\ binMask = NoArr
    /\ stages = <<>>
    /\ result = Pending
    /\ TransformerIdle
    /\ unit = NoUnit

Init == InitWith(Images, {DefaultArgs})

\* over_rate, low_rate = check_saturation(img)
CheckSaturation ==
    /\ pc = "check_saturation"
    /\ over_rate' = check_saturation(img)[1]
    /\ low_rate' = check_saturation(img)[2]
    /\ pc' = "check_brightness"
    /\ UNCHANGED <<args, img, aveValue, im, im1, im2, s, FM, quality_score,
                   binMask, stages, result, unit, tvars>>

\* aveValue = check_brightness(img)
CheckBrightness ==
    /\ pc = "check_brightness"
    /\ aveValue' = check_brightness(img)
    /\ pc' = "getImageQuality"
    /\ UNCHANGED <<args, img, over_rate, low_rate, im, im1, im2, s, FM,
                   quality_score, binMask, stages, result, unit, tvars>>

\* getImageQuality: MAC(img, img, img) up to the loop; the image has three
\* channels, so im, im1 and im2 are three fresh rounded grayscale arrays
MACEnter ==
    /\ pc = "getImageQuality"
    /\ im' = [i \in 1..Rows(img) |-> rgb2gray(img.px[i])]
    /\ im1' = im'
    /\ im2' = im'
    /\ s' = 1
    /\ FM' = <<>>
    /\ pc' = "MAC"
    /\ UNCHANGED <<args, img, over_rate, low_rate, aveValue, quality_score,
                   binMask, stages, result, unit, tvars>>

\* one pass of "for s in range(len(scales))"; FM[s] = np.mean(dif) is kept as
\* the sum of dif over one column, its denominator being the row count
MACScale ==
    /\ pc = "MAC"
    /\ s <= Len(scales)
    /\ im1' = ShiftRows(im1, im, 1)
    /\ im2' = ShiftRows(im2, im, scales[s])
    /\ FM' = Append(FM, DifSum(im, im1', im2'))
    /\ s' = s + 1
    /\ UNCHANGED <<pc, args, img, over_rate, low_rate, aveValue, im,
                   quality_score, binMask, stages, result, unit, tvars>>

\* NRMAC = np.mean(FM); quality_score = getImageQuality(input_path)
MACReturn ==
    /\ pc = "MAC"
    /\ s > Len(scales)
    /\ quality_score' = Rate(SumSeq(FM), Len(scales) * Len(im))
    /\ pc' = "gate"
    /\ UNCHANGED <<args, img, over_rate, low_rate, aveValue, im, im1, im2, s, FM,
                   binMask, stages, result, unit, tvars>>

\* the quality gate fails: return None, None, None
Reject ==
    /\ pc = "gate"
    /\ LowQuality(low_rate, aveValue, quality_score)
    /\ result' = ReturnNone
    /\ pc' = "done"
    /\ UNCHANGED <<args, img, over_rate, low_rate, aveValue, im, im1, im2, s, FM,
                   quality_score, binMask, stages, unit, tvars>>

\* if over_rate > 0.15: binMask = gen_saturated_mask(img, kernelSize)
EnterSaturated ==
    /\ pc = "gate"
    /\ ~LowQuality(low_rate, aveValue, quality_score)
    /\ Saturated(over_rate)
    /\ pc' = "gsm_plant"
    /\ UNCHANGED <<args, img, over_rate, low_rate, aveValue, im, im1, im2, s, FM,
                   quality_score, binMask, stages, result, unit, tvars>>

\* else: binMask = gen_mask(img, kernelSize)
EnterNormal ==
    /\ pc = "gate"
    /\ ~LowQuality(low_rate, aveValue, quality_score)
    /\ ~Saturated(over_rate)
    /\ pc' = "gm_plant"
    /\ UNCHANGED <<args, img, over_rate, low_rate, aveValue, im, im1, im2, s, FM,
                   quality_score, binMask, stages, result, unit, tvars>>

\* a stage of gen_saturated_mask or gen_mask: binMask = <mask>
StageStep(at, mask, op, arg, next) ==
    /\ pc = at
    /\ binMask' = mask
    /\ stages' = Append(stages, Stage(op, arg))
    /\ pc' = next
    /\ UNCHANGED <<args, img, over_rate, low_rate, aveValue, im, im1, im2, s, FM,
                   quality_score, result, unit, tvars>>

GsmPlantMask ==
    StageStep("gsm_plant", gen_plant_mask(img, kernelSize),
              "gen_plant_mask", kernelSize, "gsm_small_area")

GsmSmallArea ==
    StageStep("gsm_small_area", remove_small_area_mask(binMask, 500),
              "remove_small_area_mask", 500, "gsm_small_holes")

GsmSmallHoles ==
    StageStep("gsm_small_holes", remove_small_holes_mask(binMask, 300),
              "remove_small_holes_mask", 300, "gsm_over_saturation")

GsmOverSaturation ==
    StageStep("gsm_over_saturation",
              over_saturation_pocess(img, binMask, SATURATE_THRESHOLD),
              "over_saturation_pocess", SATURATE_THRESHOLD, "gsm_final_holes")

GsmFinalHoles ==
    StageStep("gsm_final_holes", remove_small_holes_mask(binMask, 4000),
              "remove_small_holes_mask", 4000, "ratio")

GmPlantMask ==
    StageStep("gm_plant", gen_plant_mask(img, kernelSize),
              "gen_plant_mask", kernelSize, "gm_small_area")

GmSmallArea ==
    StageStep("gm_small_area", remove_small_area_mask(binMask, SMALL_AREA_THRESHOLD),
              "remove_small_area_mask", SMALL_AREA_THRESHOLD, "gm_small_holes")

GmSmallHoles ==
    StageStep("gm_small_holes", remove_small_holes_mask(binMask, 3000),
              "remove_small_holes_mask", 3000, "ratio")

\* the ratio with the zero pixels counted instead of the non-zero ones
RatioOfZeros(mask) ==
    Rate(CountTrue(Arr(mask.w, [i \in 1..Rows(mask) |-> mask.px[i] = 0])), Size(mask))

\* c = np.count_nonzero(binMask); ratio = c / float(binMask.size)
Ratio(mask) == Rate(CountTrue(Arr(mask.w, [i \in 1..Rows(mask) |-> mask.px[i] # 0])),
                    Size(mask))

\* ratio, rgbMask and the return
Return ==
    /\ pc = "ratio"
    /\ result' = ReturnTuple(Ratio(binMask), binMask, gen_rgb_mask(img, binMask))
    /\ pc' = "done"
    /\ UNCHANGED <<args, img, over_rate, low_rate, aveValue, im, im1, im2, s, FM,
                   quality_score, binMask, stages, unit, tvars>>

Pipeline ==
    \/ CheckSaturation
    \/ CheckBrightness
    \/ MACEnter
    \/ MACScale
    \/ MACReturn
    \/ Reject
    \/ EnterSaturated
    \/ EnterNormal
    \/ GsmPlantMask
    \/ GsmSmallArea
    \/ GsmSmallHoles
    \/ GsmOverSaturation
    \/ GsmFinalHoles
    \/ GmPlantMask
    \/ GmSmallArea
    \/ GmSmallHoles
    \/ Return

Next == Pipeline

Spec == Init /\ [][Next]_vars

(***************************************************************************)
(* The options of add_local_arguments set from the environment or the      *)
(* command line, then the same pipeline.                                   *)
(***************************************************************************)
ArgChoices ==
    {DefaultArgs,
     [saturate_threshold |-> 100, max_pixel_val |-> 255, small_area_threshold |-> 200],
     [saturate_threshold |-> 245, max_pixel_val |-> 1, small_area_threshold |-> 200],
     [saturate_threshold |-> 245, max_pixel_val |-> 255, small_area_threshold |-> 500]}

\* the images the options are tried on: width 150, plant, soil and white rows
ArgImages ==
    {a \in Images : a.w = 150 /\ \A i \in 1..Rows(a) : a.px[i] \in {Plant, Soil, White}}

InitArgs == InitWith(ArgImages, ArgChoices)

SpecArgs == InitArgs /\ [][Next]_vars

(***************************************************************************)
(* over_saturation_pocess and saturated_pixel_classification called on     *)
(* their own, on every small image and mask.                               *)
(***************************************************************************)
\* most rows of an image handed to a direct call
MaxUnitRows == 5

Threshold == Colour(245, 245, 245)    \* gray 245: neither over nor under

UnitPalette == {Plant, White, Threshold}

Columns(values, h) == [1..h -> values]

UnitCall(fn, rgb_img, baseMask, saturatedMask, dilateSize) ==
    [fn |-> fn, rgb_img |-> rgb_img, baseMask |-> baseMask,
     saturatedMask |-> saturatedMask, dilateSize |-> dilateSize,
     out |-> NoArr, done |-> FALSE]

\* over_saturation_pocess(rgb_img, init_mask) on images of h rows: init_mask is
\* a 0/255 mask
RepairCalls(h) ==
    {UnitCall("over_saturation_pocess", Arr(w, c), Arr(w, m), NoArr, 1) :
        w \in Widths, c \in Columns(UnitPalette, h),
        m \in Columns({0, MAX_PIXEL_VAL}, h)}

\* saturated_pixel_classification(gray_img, baseMask, saturatedMask, dilateSize)
\* on images of h rows: both masks boolean; dilateSize is 0 by default and 1
\* from its one caller
ClassificationCalls(h) ==
    {UnitCall("saturated_pixel_classification", Arr(w, [i \in 1..h |-> 0]),
              Arr(w, b), Arr(w, m), d) :
        w \in Widths, b \in Columns(BOOLEAN, h), m \in Columns(BOOLEAN, h),
        d \in {0, 1}}

InitUnit ==
    /\ \E h \in 1..MaxUnitRows :
           \/ unit \in RepairCalls(h)
           \/ unit \in ClassificationCalls(h)
    /\ pc = "unit"
    /\ args = DefaultArgs
    /\ img = NoArr
    /\ over_rate = NoRate
    /\ low_rate = NoRate
    /\ aveValue = NoRate
    /\ im = <<>>
    /\ im1 = <<>>
    /\ im2 = <<>>
    /\ s = 0
    /\ FM = <<>>
    /\ quality_score = NoRate
    /\ binMask = NoArr
    /\ stages = <<>>
    /\ result = Pending
    /\ TransformerIdle

CallOverSaturation ==
    /\ unit.fn = "over_saturation_pocess"
    /\ ~unit.done
    /\ unit' = [unit EXCEPT
                  !.out = over_saturation_pocess(unit.rgb_img, unit.baseMask,
                                                 SATURATE_THRESHOLD),
                  !.done = TRUE]
    /\ UNCHANGED <<pc, args, img, over_rate, low_rate, aveValue, im, im1, im2, s,
                   FM, quality_score, binMask, stages, result, tvars>>

CallClassification ==
    /\ unit.fn = "saturated_pixel_classification"
    /\ ~unit.done
    /\ unit' = [unit EXCEPT
                  !.out = saturated_pixel_classification(unit.rgb_img, unit.baseMask,
                              unit.saturatedMask, unit.dilateSize),
                  !.done = TRUE]
    /\ UNCHANGED <<pc, args, img, over_rate, low_rate, aveValue, im, im1, im2, s,
                   FM, quality_score, binMask, stages, result, tvars>>

NextUnit ==
    \/ CallOverSaturation
    \/ CallClassification

SpecUnit == InitUnit /\ [][NextUnit]_vars

(***************************************************************************)
(* Claims.                                                                 *)
(***************************************************************************)
Accepted == pc = "done" /\ result.kind = "tuple"

Rejected == pc = "done" /\ result.kind = "None"

\* C1: gen_cc_enhanced returns None, None, None, having built no mask, if and
\* only if low_rate > 0.1 or aveValue < 30 or aveValue > 195 or
\* quality_score < 13; the bounds themselves do not reject and over_rate plays
\* no part.
C1_RejectsIffGateFails ==
    pc = "done" =>
        /\ result.kind \in {"None", "tuple"}
        /\ (result.kind = "None") <=>
               \/ 10 * low_rate.num > low_rate.den
               \/ aveValue.num < 30 * aveValue.den
               \/ aveValue.num > 195 * aveValue.den
               \/ 10 * quality_score.num < 130 * quality_score.den
        /\ result.kind = "None" =>
               /\ result.ratio = NoRate
               /\ result.binMask = NoArr
               /\ result.rgbMask = NoArr
               /\ binMask = NoArr
               /\ stages = <<>>

\* an image rejected for its brightness alone: it is too bright, while its
\* low rate and its quality score pass
C1_Witness ==
    /\ Rejected
    /\ aveValue.num > 195 * aveValue.den
    /\ 10 * low_rate.num <= low_rate.den
    /\ quality_score.num >= 13 * quality_score.den

\* the two stage sequences of the claim
SaturatedStages ==
    <<Stage("gen_plant_mask", 3), Stage("remove_small_area_mask", 500),
      Stage("remove_small_holes_mask", 300), Stage("over_saturation_pocess", 245),
      Stage("remove_small_holes_mask", 4000)>>

NormalStages ==
    <<Stage("gen_plant_mask", 3), Stage("remove_small_area_mask", 200),
      Stage("remove_small_holes_mask", 3000)>>

IsPrefix(p, q) == Len(p) <= Len(q) /\ p = SubSeq(q, 1, Len(p))

OverRateAbove15 == 100 * over_rate.num > 15 * over_rate.den

\* C2: an accepted image goes through the saturated stages exactly when
\* over_rate > 0.15 and through the normal stages otherwise (0.15 itself is
\* normal); at every moment the stages run so far are a prefix of that one
\* sequence, and the final mask is the composition of its stages in order.
C2_StagesInOrder ==
    /\ pc \in {"check_saturation", "check_brightness", "getImageQuality", "MAC", "gate"}
           => stages = <<>>
    /\ stages # <<>> =>
           IsPrefix(stages, IF OverRateAbove15 THEN SaturatedStages ELSE NormalStages)
    /\ Accepted =>
           IF OverRateAbove15
           THEN /\ stages = SaturatedStages
                /\ binMask =
                       remove_small_holes_mask(
                           over_saturation_pocess(img,
                               remove_small_holes_mask(
                                   remove_small_area_mask(gen_plant_mask(img, 3), 500),
                                   300),
                               245),
                           4000)
           ELSE /\ stages = NormalStages
                /\ binMask =
                       remove_small_holes_mask(
                           remove_small_area_mask(gen_plant_mask(img, 3), 200), 3000)

\* an accepted image on the saturated path whose mask differs from the one
\* the normal stages give
C2_Witness ==
    /\ Accepted
    /\ OverRateAbove15
    /\ stages = SaturatedStages
    /\ binMask # gen_mask(img, 3)

NonZeroRows(mask) == {i \in 1..Rows(mask) : mask.px[i] # 0}

\* C9: the ratio returned for an accepted image is the number of non-zero
\* pixels of the returned mask over its number of pixels, on either path, and
\* lies in [0, 1].
C9_RatioIsForegroundShare ==
    Accepted =>
        /\ result.binMask = binMask
        /\ result.ratio.num = Cardinality(NonZeroRows(result.binMask)) * result.binMask.w
        /\ result.ratio.den = Rows(result.binMask) * result.binMask.w
        /\ result.ratio.den > 0
        /\ 0 <= result.ratio.num
        /\ result.ratio.num <= result.ratio.den

\* an accepted image whose mask has both foreground and background
C9_Witness ==
    /\ Accepted
    /\ 0 < result.ratio.num
    /\ result.ratio.num < result.ratio.den

IsMaskOf(mask, a) ==
    /\ mask.w = a.w
    /\ Rows(mask) = Rows(a)
    /\ \A i \in 1..Rows(mask) : mask.px[i] \in {0, 255}

\* C10: the mask gen_plant_mask builds, and the mask after each later stage
\* of gen_mask and gen_saturated_mask, has the height and width of the image
\* and holds only 0 and 255.
C10_MaskShapeAndValues ==
    /\ stages # <<>> => IsMaskOf(binMask, img)
    /\ Accepted => IsMaskOf(result.binMask, img)

\* the mask left by over_saturation_pocess on the saturated path, with
\* foreground and background rows
C10_Witness ==
    /\ pc = "gsm_final_holes"
    /\ \E i \in 1..Rows(binMask) : binMask.px[i] = 255
    /\ \E i \in 1..Rows(binMask) : binMask.px[i] = 0

(***************************************************************************)
(* What a finished direct call worked on: the base mask, the saturation    *)
(* mask and the labelled regions of saturated_pixel_classification.        *)
(***************************************************************************)
IsRepairCall == unit.fn = "over_saturation_pocess"

CallBase ==
    IF IsRepairCall
    THEN RefinedBase(unit.rgb_img, unit.baseMask, SATURATE_THRESHOLD)
    ELSE unit.baseMask

CallSaturated ==
    IF IsRepairCall THEN OverMask(unit.rgb_img, SATURATE_THRESHOLD)
    ELSE unit.saturatedMask

CallLabels == LabelSaturated(unit.rgb_img, CallSaturated, unit.dilateSize)[1]

CallCount == LabelSaturated(unit.rgb_img, CallSaturated, unit.dilateSize)[2]

CallRows == 1..Rows(unit.rgb_img)

\* row i is foreground in the result of the call
InResult(i) == IF IsRepairCall THEN unit.out.px[i] # 0 ELSE unit.out.px[i]

\* the rows of the region labelled l, its pixel count, its overlap with the base
Region(l) == {i \in CallRows : CallLabels.px[i] = l}

RegionArea(l) == Cardinality(Region(l)) * unit.rgb_img.w

RegionOverlapsBase(l) == \E i \in Region(l) : CallBase.px[i]

RegionMerged(l) == \A i \in Region(l) : InResult(i)

\* C3: the labels merged are among 1 .. count-1: a pixel joins the base mask
\* only with a label in that range, the region with the highest label is never
\* merged (with one region nothing is), and every lower label that passes
\* the size and overlap tests is merged whole.
C3_LastLabelNeverMerged ==
    unit.done =>
        /\ \A i \in CallRows :
               (InResult(i) /\ ~CallBase.px[i]) => CallLabels.px[i] \in 1..(CallCount - 1)
        /\ \A i \in CallRows :
               CallLabels.px[i] \in {0, CallCount} => (InResult(i) <=> CallBase.px[i])
        /\ CallCount <= 1 => \A i \in CallRows : InResult(i) <=> CallBase.px[i]
        /\ \A l \in 1..(CallCount - 1) :
               (RegionArea(l) <= 100000 /\ RegionOverlapsBase(l)) => RegionMerged(l)

\* two regions or more; a lower one was merged, and the last one, small and
\* overlapping the base mask, was left out
C3_Witness ==
    /\ unit.done
    /\ CallCount >= 2
    /\ RegionArea(CallCount) <= 100000
    /\ RegionOverlapsBase(CallCount)
    /\ ~RegionMerged(CallCount)
    /\ \E l \in 1..(CallCount - 1) : RegionMerged(l) /\ \E i \in Region(l) : ~CallBase.px[i]

\* C4: no region of more than 100000 pixels is unioned into the result (of
\* its pixels only those of the base mask are foreground), while a region of
\* exactly 100000 pixels below the last label that overlaps the base is.
C4_LargeRegionsNeverMerged ==
    unit.done =>
        /\ \A l \in 1..CallCount :
               RegionArea(l) > 100000 =>
                   \A i \in Region(l) : InResult(i) => CallBase.px[i]
        /\ \A l \in 1..(CallCount - 1) :
               (RegionArea(l) = 100000 /\ RegionOverlapsBase(l)) => RegionMerged(l)

\* a region below the last label that overlaps the base mask and is left out
\* for its size alone
C4_Witness ==
    /\ unit.done
    /\ \E l \in 1..(CallCount - 1) :
           /\ RegionArea(l) > 100000
           /\ RegionOverlapsBase(l)
           /\ \E i \in Region(l) : ~InResult(i)

RECURSIVE VisitDown(_, _, _, _)
\* the loop of saturated_pixel_classification with the labels visited from i
\* down to 1
VisitDown(label_img, baseMask, rel_mask, i) ==
    IF i < 1 THEN rel_mask
    ELSE VisitDown(label_img, baseMask,
                   ClassifyStep(label_img, baseMask, rel_mask, i), i - 1)

\* C5: the result holds the refined base mask (255 there); every other
\* foreground pixel lies in a labelled region that shares a pixel with the
\* refined base, so a region without overlap is never added; and visiting the
\* labels in the opposite order gives the same mask.
C5_GrowsBaseByOverlappingRegions ==
    unit.done =>
        /\ \A i \in CallRows : CallBase.px[i] => InResult(i)
        /\ IsRepairCall => \A i \in CallRows : CallBase.px[i] => unit.out.px[i] = 255
        /\ \A i \in CallRows :
               (InResult(i) /\ ~CallBase.px[i]) =>
                   /\ CallLabels.px[i] >= 1
                   /\ RegionOverlapsBase(CallLabels.px[i])
        /\ \A l \in 1..CallCount :
               ~RegionOverlapsBase(l) => \A i \in Region(l) : ~InResult(i)
        /\ \A i \in CallRows :
               InResult(i) <=>
                   VisitDown(CallLabels, CallBase, CallBase, CallCount - 1).px[i]

\* over_saturation_pocess kept a non-empty refined base and left out a region
\* below the last label, small enough, that overlaps the mask it was given
\* but no pixel of the refined base
C5_Witness ==
    /\ unit.done
    /\ IsRepairCall
    /\ \E i \in CallRows : CallBase.px[i]
    /\ \E l \in 1..(CallCount - 1) :
           /\ RegionArea(l) <= 100000
           /\ \E i \in Region(l) : unit.baseMask.px[i] # 0
           /\ ~RegionOverlapsBase(l)
           /\ \A i \in Region(l) : ~InResult(i)

(***************************************************************************)
(* MAC's shifted copies.                                                   *)
(***************************************************************************)
\* C6: when the product of a scale is computed (the pass of MACScale for
\* scales[s - 1] just made), the last row of im1 and the last scales[s - 1]
\* rows of im2, which the shift does not overwrite, hold im's values.
C6_EdgeRowsHoldOriginal ==
    (pc = "MAC" /\ s > 1) =>
        LET h == Len(im)
            k == scales[s - 1]
        IN  /\ im1[h] = im[h]
            /\ \A i \in 1..h : i > h - k => im2[i] = im[i]

(***************************************************************************)
(* The saturated path against the normal path.                             *)
(***************************************************************************)
GreenRows(a) == {i \in 1..Rows(a) : a.px[i].g > a.px[i].r}

IsRun(S) == S # {} /\ \A i \in S, j \in S : \A k \in i..j : k \in S

\* the rows of the White block that ends just above row i, or starts just
\* below it
WhiteAbove(a, i) == {j \in 1..(i - 1) : \A k \in j..(i - 1) : a.px[k] = White}

WhiteBelow(a, i) ==
    {j \in (i + 1)..Rows(a) : \A k \in (i + 1)..j : a.px[k] = White}

\* the construction: one green rectangle (g > r inside, g <= r outside) and
\* a block of gray 250, more than 15% of the image, touching it
GreenRectangleWithWhiteBlock(a) ==
    LET G  == GreenRows(a)
        lo == CHOOSE i \in G : \A j \in G : i <= j
        hi == CHOOSE i \in G : \A j \in G : j <= i
    IN  /\ IsRun(G)
        /\ \/ 100 * Cardinality(WhiteAbove(a, lo)) > 15 * Rows(a)
           \/ 100 * Cardinality(WhiteBelow(a, hi)) > 15 * Rows(a)

Foreground(mask) == CountTrue(Greater(mask, 0))

SaturatedNotBelowNormal ==
    /\ stages = SaturatedStages
    /\ Foreground(result.binMask) >= Foreground(gen_mask(img, 3))

\* C7 as stated: for an accepted image of the construction the saturated
\* path is taken and its mask has at least the foreground count of gen_mask.
C7_SaturatedNotBelowNormal ==
    (Accepted /\ GreenRectangleWithWhiteBlock(img)) => SaturatedNotBelowNormal

\* the smoothed plant mask of the image is one region of at least 500
\* pixels, every one of them under the saturation threshold
PlantMaskSurvives(a) ==
    LET F == NonZeroRows(gen_plant_mask(a, 3))
    IN  /\ IsRun(F)
        /\ Cardinality(F) * a.w >= 500
        /\ \A i \in F : BGR2GRAY(a.px[i]) < SATURATE_THRESHOLD

\* C7 amended: for an accepted image of the construction whose smoothed
\* plant mask is one region of at least 500 pixels, all under the saturation
\* threshold, the saturated path is taken and its mask has at least the
\* foreground count of gen_mask.
C7_SurvivingMaskNotBelowNormal ==
    (Accepted /\ GreenRectangleWithWhiteBlock(img) /\ PlantMaskSurvives(img))
        => SaturatedNotBelowNormal

\* an accepted image of the amended construction on which the saturated
\* path recovers more foreground than gen_mask gives
C7_Witness ==
    /\ Accepted
    /\ GreenRectangleWithWhiteBlock(img)
    /\ PlantMaskSurvives(img)
    /\ stages = SaturatedStages
    /\ Foreground(result.binMask) > Foreground(gen_mask(img, 3))

(***************************************************************************)
(* The options against the values the pipeline uses.                       *)
(***************************************************************************)
\* C8: the supplied saturate_threshold is the one check_saturation and
\* over_saturation_pocess use, the supplied small_area_threshold the one
\* gen_mask uses, the supplied max_pixel_val the foreground value of the mask
\* returned (with no override these are 245, 200 and 255).
C8_OverridesAreUsed ==
    /\ pc # "check_saturation" =>
           over_rate = Rate(CountTrue(Greater(cvtColor(img), args.saturate_threshold)),
                            Size(img))
    /\ \A i \in 1..Len(stages) :
           /\ stages[i].op = "over_saturation_pocess"
                  => stages[i].arg = args.saturate_threshold
           /\ (stages[i].op = "remove_small_area_mask" /\ stages = NormalStages)
                  => stages[i].arg = args.small_area_threshold
    /\ Accepted =>
           \A i \in 1..Rows(result.binMask) :
               result.binMask.px[i] \in {0, args.max_pixel_val}

(***************************************************************************)
(* check_saturation called on its own, on images of one gray value.        *)
(***************************************************************************)
\* most rows of an image of one gray value
MaxUniformRows == 2

\* the images whose every pixel is (v, v, v), for every 8-bit v
UniformImages ==
    {Arr(w, [i \in 1..h |-> Gray(v)]) :
        w \in Widths, h \in 1..MaxUniformRows, v \in 0..MAX_PIXEL_VAL}

InitSaturation ==
    /\ unit \in {UnitCall("check_saturation", a, NoArr, NoArr, 0) : a \in UniformImages}
    /\ pc = "unit"
    /\ args = DefaultArgs
    /\ img = NoArr
    /\ over_rate = NoRate
    /\ low_rate = NoRate
    /\ aveValue = NoRate
    /\ im = <<>>
    /\ im1 = <<>>
    /\ im2 = <<>>
    /\ s = 0
    /\ FM = <<>>
    /\ quality_score = NoRate
    /\ binMask = NoArr
    /\ stages = <<>>
    /\ result = Pending
    /\ TransformerIdle

\* over_rate, low_rate = check_saturation(img)
CallCheckSaturation ==
    /\ unit.fn = "check_saturation"
    /\ ~unit.done
    /\ unit' = [unit EXCEPT !.out = check_saturation(unit.rgb_img), !.done = TRUE]
    /\ UNCHANGED <<pc, args, img, over_rate, low_rate, aveValue, im, im1, im2, s,
                   FM, quality_score, binMask, stages, result, tvars>>

NextSaturation == CallCheckSaturation

SpecSaturation == InitSaturation /\ [][NextSaturation]_vars

\* the gray value of the first pixel of the image of the call
CallGray == cvtColor(unit.rgb_img).px[1]

IsOne(rate) == rate.den > 0 /\ rate.num = rate.den

IsZero(rate) == rate.den > 0 /\ rate.num = 0

\* C11: on an image whose gray value is v at every pixel, check_saturation
\* returns (1.0, 0.0) if v > 245, (0.0, 1.0) if v < 20 and (0.0, 0.0)
\* otherwise, so also for v = 245 and v = 20.
C11_UniformImageRates ==
    (unit.fn = "check_saturation" /\ unit.done) =>
        LET over == unit.out[1]
            low  == unit.out[2]
        IN  IF CallGray > 245 THEN IsOne(over) /\ IsZero(low)
            ELSE IF CallGray < 20 THEN IsZero(over) /\ IsOne(low)
            ELSE IsZero(over) /\ IsZero(low)

\* check_saturation has returned (0.0, 0.0) for an image of gray 245
C11_Witness ==
    /\ unit.fn = "check_saturation"
    /\ unit.done
    /\ CallGray = 245
    /\ IsZero(unit.out[1])
    /\ IsZero(unit.out[2])

(***************************************************************************)
(* transformer.py: check_continue and perform_process.                     *)
(*                                                                         *)
(* A listed file carries its extension and what the libraries return for   *)
(* it: bounds (get_image_bounds returned a polygon) and overlap_plots (the  *)
(* plots find_plots_intersect_boundingbox returns), each plot with its name *)
(* and what clip_raster gives: "None", "raise" (an exception while         *)
(* clipping or averaging) or the pixel values in hundredths of a kelvin.    *)
(***************************************************************************)
SUPPORTED_IMAGE_EXTS == {".tif", ".tiff"}

\* most files of a request
MaxFiles == 2

\* numbers of plots an image may intersect
PlotCounts == {0, 1, 2}

\* what clip_raster gives for a plot: nothing, an exception (from it or from
\* the averaging), or pixels: only a negative one, a negative one and one of
\* 300.15 K
Clip(kind, px) == [kind |-> kind, px |-> px]

Clips ==
    {Clip("None", <<>>), Clip("raise", <<>>), Clip("pixels", <<-1>>),
     Clip("pixels", <<-1, 30015>>)}

PlotSeqs == UNION {[1..n -> Clips] : n \in PlotCounts}

\* plots are named by their place among the plots of the site
Plots(clips) == [i \in 1..Len(clips) |-> [plot_name |-> i, pxarray |-> clips[i]]]

File(ext, bounds, overlap_plots) ==
    [ext |-> ext, bounds |-> bounds, overlap_plots |-> overlap_plots]

FileKinds ==
    {File(".tif", TRUE, Plots(c)) : c \in PlotSeqs}
        \cup {File(".tiff", TRUE, Plots(<<Clip("pixels", <<-1, 30015>>)>>)),
              File(".tif", FALSE, <<>>),
              File(".TIF", TRUE, Plots(<<Clip("pixels", <<-1, 30015>>)>>)),
              File(".txt", FALSE, <<>>),
              File("", FALSE, <<>>)}

\* files are named by their place in the list
Listed(kinds) ==
    [i \in 1..Len(kinds) |->
        [path |-> i, ext |-> kinds[i].ext, bounds |-> kinds[i].bounds,
         overlap_plots |-> kinds[i].overlap_plots]]

FileLists == {Listed(k) : k \in UNION {[1..n -> FileKinds] : n \in 0..MaxFiles}}

CheckMd(has_list_files, list_files) ==
    [has_list_files |-> has_list_files, list_files |-> list_files]

\* ext and ext in image_exts
Supported(one_file) == one_file.ext # "" /\ one_file.ext \in SUPPORTED_IMAGE_EXTS

\* what check_continue returns: a tuple (code, message) or a bare integer
ReturnedTuple(code, message) == [kind |-> "tuple", code |-> code, message |-> message]

ReturnedInt(code) == [kind |-> "int", code |-> code]

check_continue(md) ==
    IF ~md.has_list_files
    THEN ReturnedTuple(-1, "Unable to find list of files associated with this request")
    ELSE IF \E i \in 1..Len(md.list_files) : Supported(md.list_files[i])
         THEN ReturnedInt(0)
         ELSE ReturnedTuple(-1, "Unable to find an image file to work with")

\* the counters and files of perform_process before it runs
ProcessIdle ==
    /\ file_index = 0
    /\ plot_index = 0
    /\ geo_file = [open |-> FALSE, lines |-> <<>>]
    /\ bety_file = [open |-> FALSE, lines |-> <<>>]
    /\ num_files = 0
    /\ number_empty_plots = 0
    /\ total_plots_calculated = 0
    /\ total_files = 0
    /\ processed_plots = 0
    /\ ret = [kind |-> "pending"]

\* the pipeline of terra_ganEnhancement.py does not run
PipelineIdle ==
    /\ args = DefaultArgs
    /\ img = NoArr
    /\ over_rate = NoRate
    /\ low_rate = NoRate
    /\ aveValue = NoRate
    /\ im = <<>>
    /\ im1 = <<>>
    /\ im2 = <<>>
    /\ s = 0
    /\ FM = <<>>
    /\ quality_score = NoRate
    /\ binMask = NoArr
    /\ stages = <<>>
    /\ result = Pending
    /\ unit = NoUnit

\* a request with or without a list of files, given to check_continue or
\* (with its list) to perform_process
InitTransformer ==
    /\ \/ /\ check_md \in {CheckMd(TRUE, l) : l \in FileLists}
          /\ pc \in {"check_continue", "perform_process"}
       \/ /\ check_md = CheckMd(FALSE, <<>>)
          /\ pc = "check_continue"
    /\ ProcessIdle
    /\ PipelineIdle

ptvars == <<file_index, plot_index, geo_file, bety_file, num_files,
            number_empty_plots, total_plots_calculated, total_files,
            processed_plots>>

pvars == <<args, img, over_rate, low_rate, aveValue, im, im1, im2, s, FM,
           quality_score, binMask, stages, result, unit>>

CheckContinue ==
    /\ pc = "check_continue"
    /\ ret' = check_continue(check_md)
    /\ pc' = "done"
    /\ UNCHANGED <<check_md, ptvars, pvars>>

\* open(name, 'w')
open == [open |-> TRUE, lines |-> <<>>]

write(file, line) == [file EXCEPT !.lines = Append(@, line)]

close(file) == [file EXCEPT !.open = FALSE]

\* a line of a CSV file: the header, or a row with the values that vary
HeaderLine(text) ==
    [header |-> TRUE, text |-> text, site |-> 0, source |-> 0, value |-> 0]

RowLine(text, site, source, value) ==
    [header |-> FALSE, text |-> text, site |-> site, source |-> source, value |-> value]

geo_csv_header == HeaderLine("site,trait,lat,lon,dp_time,source,value,timestamp")

bety_csv_header ==
    HeaderLine("local_datetime,surface_temperature,access_level,site,citation_author,citation_year,citation_title,method")

\* np.nanmean(pxarray) - 273.15 after pxarray[pxarray < 0] = np.nan, in
\* hundredths of a degree; nan when no pixel is left
mean_tc(pxarray) ==
    LET kept == SelectSeq(pxarray, LAMBDA v : v >= 0)
    IN  IF kept = <<>> THEN [nan |-> TRUE, value |-> 0]
        ELSE [nan |-> FALSE, value |-> (SumSeq(kept) \div Len(kept)) - 27315]

GeoRow(plot_name, one_file, mean) ==
    RowLine("IR Surface Temperature", plot_name, one_file.path, mean.value)

BetyRow(plot_name, mean) ==
    RowLine("Mean temperature from infrared images", plot_name, 0, mean.value)

\* lines 200-239: both files opened, the headers written, the counters zeroed
OpenFiles ==
    /\ pc = "perform_process"
    /\ geo_file' = write(open, geo_csv_header)
    /\ bety_file' = write(open, bety_csv_header)
    /\ num_files' = 0
    /\ number_empty_plots' = 0
    /\ total_plots_calculated' = 0
    /\ total_files' = 0
    /\ processed_plots' = 0
    /\ file_index' = 1
    /\ pc' = "files"
    /\ UNCHANGED <<check_md, plot_index, ret, pvars>>

one_file == check_md.list_files[file_index]

InFiles == pc = "files" /\ file_index <= Len(check_md.list_files)

\* a file the loop passes over: total_files += 1; continue
Skip ==
    /\ total_files' = total_files + 1
    /\ file_index' = file_index + 1
    /\ UNCHANGED <<pc, check_md, plot_index, geo_file, bety_file, num_files,
                   number_empty_plots, total_plots_calculated, processed_plots,
                   ret, pvars>>

SkipUnsupported ==
    /\ InFiles
    /\ ~Supported(one_file)
    /\ Skip

SkipNoBounds ==
    /\ InFiles
    /\ Supported(one_file)
    /\ ~one_file.bounds
    /\ Skip

SkipNoPlots ==
    /\ InFiles
    /\ Supported(one_file)
    /\ one_file.bounds
    /\ Len(one_file.overlap_plots) = 0
    /\ Skip

\* num_files += 1 and the loop over overlap_plots entered
EnterFile ==
    /\ InFiles
    /\ Supported(one_file)
    /\ one_file.bounds
    /\ Len(one_file.overlap_plots) > 0
    /\ total_files' = total_files + 1
    /\ num_files' = num_files + 1
    /\ plot_index' = 1
    /\ pc' = "plots"
    /\ UNCHANGED <<check_md, file_index, geo_file, bety_file, number_empty_plots,
                   total_plots_calculated, processed_plots, ret, pvars>>

plot == one_file.overlap_plots[plot_index]

InPlots == pc = "plots" /\ plot_index <= Len(one_file.overlap_plots)

\* processed_plots += 1, and on to the next plot with nothing written
Continue ==
    /\ processed_plots' = processed_plots + 1
    /\ plot_index' = plot_index + 1
    /\ UNCHANGED <<pc, check_md, file_index, geo_file, bety_file, num_files,
                   total_plots_calculated, total_files, ret, pvars>>

\* clip_raster returned None: the else branch, continue
PlotNone ==
    /\ InPlots
    /\ plot.pxarray.kind = "None"
    /\ Continue
    /\ UNCHANGED number_empty_plots

\* an exception that ends the loop over the plots of the file
PlotRaisesBreaks ==
    /\ InPlots
    /\ plot.pxarray.kind = "raise"
    /\ processed_plots' = processed_plots + 1
    /\ plot_index' = Len(one_file.overlap_plots) + 1
    /\ UNCHANGED <<pc, check_md, file_index, geo_file, bety_file, num_files,
                   number_empty_plots, total_plots_calculated, total_files, ret,
                   pvars>>

\* an exception inside the try: logged, continue
PlotRaises ==
    /\ InPlots
    /\ plot.pxarray.kind = "raise"
    /\ Continue
    /\ UNCHANGED number_empty_plots

\* the rows written and total_plots_calculated += 1
WriteRows ==
    /\ geo_file' = write(geo_file, GeoRow(plot.plot_name, one_file, mean_tc(plot.pxarray.px)))
    /\ bety_file' = write(bety_file, BetyRow(plot.plot_name, mean_tc(plot.pxarray.px)))
    /\ total_plots_calculated' = total_plots_calculated + 1
    /\ processed_plots' = processed_plots + 1
    /\ plot_index' = plot_index + 1
    /\ UNCHANGED <<pc, check_md, file_index, num_files, number_empty_plots,
                   total_files, ret, pvars>>

\* an empty plot written like any other, the test for nan forgotten
PlotEmptyWritten ==
    /\ InPlots
    /\ plot.pxarray.kind = "pixels"
    /\ mean_tc(plot.pxarray.px).nan
    /\ WriteRows

\* np.isnan(mean_tc): number_empty_plots += 1; continue
PlotEmpty ==
    /\ InPlots
    /\ plot.pxarray.kind = "pixels"
    /\ mean_tc(plot.pxarray.px).nan
    /\ Continue
    /\ number_empty_plots' = number_empty_plots + 1

PlotWritten ==
    /\ InPlots
    /\ plot.pxarray.kind = "pixels"
    /\ ~mean_tc(plot.pxarray.px).nan
    /\ WriteRows

\* the plots of one_file are done: the next file
NextFile ==
    /\ pc = "plots"
    /\ plot_index > Len(one_file.overlap_plots)
    /\ file_index' = file_index + 1
    /\ pc' = "files"
    /\ UNCHANGED <<check_md, plot_index, geo_file, bety_file, num_files,
                   number_empty_plots, total_plots_calculated, total_files,
                   processed_plots, ret, pvars>>

\* the two tests of lines 315-318 made in the opposite order
ReturnCodePlotsFirst(files, calculated) ==
    IF calculated = 0 THEN -1001 ELSE IF files = 0 THEN -1000 ELSE 0

\* lines 315-318 and 333: the code returned
ReturnCode(files, calculated) ==
    IF files = 0 THEN -1000 ELSE IF calculated = 0 THEN -1001 ELSE 0

AfterFiles == pc = "files" /\ file_index > Len(check_md.list_files)

ReturnedError(code, error) == [kind |-> "dict", code |-> code, error |-> error]

\* return {'code': -1000, ...}
ReturnNoFiles ==
    /\ AfterFiles
    /\ ReturnCode(num_files, total_plots_calculated) = -1000
    /\ ret' = ReturnedError(-1000, "No files were processed")
    /\ pc' = "done"
    /\ UNCHANGED <<check_md, ptvars, pvars>>

\* return {'code': -1001, ...}
ReturnNoPlots ==
    /\ AfterFiles
    /\ ReturnCode(num_files, total_plots_calculated) = -1001
    /\ ret' = ReturnedError(-1001, "No plots intersected with the images provided")
    /\ pc' = "done"
    /\ UNCHANGED <<check_md, ptvars, pvars>>

\* lines 320-345: both files listed and closed, the counters returned
ReturnOk ==
    /\ AfterFiles
    /\ ReturnCode(num_files, total_plots_calculated) = 0
    /\ geo_file' = close(geo_file)
    /\ bety_file' = close(bety_file)
    /\ ret' = [kind |-> "dict", code |-> 0,
               files |-> <<"meantemp_geostreams.csv", "meantemp.csv">>,
               total_file_count |-> total_files,
               processed_file_count |-> num_files,
               total_plots_processed |-> processed_plots,
               empty_plots |-> number_empty_plots]
    /\ pc' = "done"
    /\ UNCHANGED <<check_md, file_index, plot_index, num_files, number_empty_plots,
                   total_plots_calculated, total_files, processed_plots, pvars>>

NextTransformer ==
    \/ CheckContinue
    \/ OpenFiles
    \/ SkipUnsupported
    \/ SkipNoBounds
    \/ SkipNoPlots
    \/ EnterFile
    \/ PlotNone
    \/ PlotRaises
    \/ PlotEmpty
    \/ PlotWritten
    \/ NextFile
    \/ ReturnNoFiles
    \/ ReturnNoPlots
    \/ ReturnOk

SpecTransformer == InitTransformer /\ [][NextTransformer]_vars

\* every variable has a value of its kind
TransformerTypeOK ==
    /\ pc \in {"check_continue", "perform_process", "files", "plots", "done"}
    /\ ret.kind \in {"pending", "tuple", "int", "dict"}
    /\ total_files <= Len(check_md.list_files)

(***************************************************************************)
(* Claims about transformer.py.                                            *)
(***************************************************************************)
ProcessReturned == pc = "done" /\ ret.kind = "dict"

\* clipping gave pixel data whose mean is a number: some pixel is not negative
HasValidMean(p) ==
    p.pxarray.kind = "pixels" /\ \E k \in 1..Len(p.pxarray.px) : p.pxarray.px[k] >= 0

Pair(source, site) == [source |-> source, site |-> site]

\* the (image, plot) pairs of one file that give a row, in order
FilePairs(f) ==
    IF f.ext \in {".tif", ".tiff"} /\ f.bounds
    THEN LET valid == SelectSeq(f.overlap_plots, HasValidMean)
         IN  [k \in 1..Len(valid) |-> Pair(f.path, valid[k].plot_name)]
    ELSE <<>>

RECURSIVE PairsFrom(_, _)
\* the pairs of the files from place i on
PairsFrom(list, i) ==
    IF i > Len(list) THEN <<>> ELSE FilePairs(list[i]) \o PairsFrom(list, i + 1)

\* the data rows of a file: its lines after the first
DataRows(file) == SubSeq(file.lines, 2, Len(file.lines))

\* C12: after perform_process each CSV file holds its header first and once,
\* then one row per (supported image, intersecting plot) pair with pixel data
\* and a valid mean and no exception, in processing order; the other pairs
\* give no row, and both files have the same number of rows.
C12_OneRowPerValidPair ==
    ProcessReturned =>
        LET pairs == PairsFrom(check_md.list_files, 1)
            geo   == DataRows(geo_file)
            bety  == DataRows(bety_file)
        IN  /\ Len(geo_file.lines) >= 1 /\ geo_file.lines[1] = geo_csv_header
            /\ Len(bety_file.lines) >= 1 /\ bety_file.lines[1] = bety_csv_header
            /\ \A k \in 1..Len(geo) : ~geo[k].header
            /\ \A k \in 1..Len(bety) : ~bety[k].header
            /\ Len(geo) = Len(pairs)
            /\ Len(bety) = Len(geo)
            /\ \A k \in 1..Len(pairs) :
                   /\ Pair(geo[k].source, geo[k].site) = pairs[k]
                   /\ bety[k].site = pairs[k].site

\* perform_process has written two rows and met an empty plot and a plot
\* with no clip or an exception
C12_Witness ==
    /\ ProcessReturned
    /\ Len(DataRows(geo_file)) = 2
    /\ Len(DataRows(bety_file)) = 2
    /\ number_empty_plots = 1
    /\ processed_plots = 4

CheckReturned == pc = "done" /\ ret.kind \in {"tuple", "int"}

\* some listed file has the extension .tif or .tiff
HasImageFile ==
    /\ check_md.has_list_files
    /\ \E i \in 1..Len(check_md.list_files) :
           check_md.list_files[i].ext \in {".tif", ".tiff"}

\* C13: check_continue always returns a tuple (code, message): code -1 with
\* a message when check_md has no list_files or no listed file is a .tif or
\* .tiff, code 0 when one is.
C13_ReturnsTuple ==
    CheckReturned =>
        /\ ret.kind = "tuple"
        /\ ret.code = IF HasImageFile THEN 0 ELSE -1
        /\ ret.code = -1 => ret.message # ""

\* a supported, geo-referenced image that intersects at least one plot
Qualifies(f) == f.ext \in {".tif", ".tiff"} /\ f.bounds /\ Len(f.overlap_plots) >= 1

SomeFileQualifies ==
    \E i \in 1..Len(check_md.list_files) : Qualifies(check_md.list_files[i])

SomePlotValid ==
    \E i \in 1..Len(check_md.list_files) :
        /\ Qualifies(check_md.list_files[i])
        /\ \E k \in 1..Len(check_md.list_files[i].overlap_plots) :
               HasValidMean(check_md.list_files[i].overlap_plots[k])

\* C14: perform_process returns -1000 exactly when no listed file qualifies
\* (no file counted as processed), -1001 exactly when one does but no plot
\* gave a valid mean, and otherwise 0 with both CSV paths under 'files',
\* processed_file_count <= total_file_count and rows written + empty_plots
\* <= total_plots_processed.
C14_ReturnCodes ==
    ProcessReturned =>
        /\ ret.code \in {-1000, -1001, 0}
        /\ ret.code = -1000 <=> ~SomeFileQualifies
        /\ ret.code = -1000 => num_files = 0
        /\ ret.code = -1001 <=> (SomeFileQualifies /\ ~SomePlotValid)
        /\ ret.code = 0 =>
               /\ ret.files = <<"meantemp_geostreams.csv", "meantemp.csv">>
               /\ ret.processed_file_count <= ret.total_file_count
               /\ Len(DataRows(geo_file)) + ret.empty_plots <= ret.total_plots_processed
               /\ Len(DataRows(bety_file)) + ret.empty_plots <= ret.total_plots_processed

\* code 0 with a file passed over and a plot that gave neither a row nor an
\* empty plot
C14_Witness ==
    /\ ProcessReturned
    /\ ret.code = 0
    /\ ret.processed_file_count < ret.total_file_count
    /\ Len(DataRows(geo_file)) + ret.empty_plots < ret.total_plots_processed

\* C15: perform_process has closed both CSV files when it returns, whatever
\* the code.
C15_FilesClosedOnReturn ==
    ProcessReturned => (~geo_file.open /\ ~bety_file.open)

Raises(p) == p.pxarray.kind = "raise"

\* a file without the plots whose clipping or averaging raises
WithoutRaising(f) ==
    [f EXCEPT !.overlap_plots = SelectSeq(f.overlap_plots, LAMBDA p : ~Raises(p))]

\* the list of files with every raising (image, plot) pair taken out
ListWithoutRaising == [i \in 1..Len(check_md.list_files) |->
                          WithoutRaising(check_md.list_files[i])]

SomePairRaises ==
    \E i \in 1..Len(check_md.list_files) :
        /\ Qualifies(check_md.list_files[i])
        /\ \E k \in 1..Len(check_md.list_files[i].overlap_plots) :
               Raises(check_md.list_files[i].overlap_plots[k])

RECURSIVE PlotsFrom(_, _)
\* the number of plots of the qualifying files from place i on
PlotsFrom(list, i) ==
    IF i > Len(list) THEN 0
    ELSE (IF Qualifies(list[i]) THEN Len(list[i].overlap_plots) ELSE 0)
             + PlotsFrom(list, i + 1)

\* C16: when clipping or averaging raises for some (image, plot) pairs, each
\* such pair gives no row in either file and is still counted among the
\* plots processed, every file is still visited, and the rows written are
\* those of the list without the raising pairs, in the same order.
C16_ExceptionContained ==
    (ProcessReturned /\ SomePairRaises) =>
        LET pairs == PairsFrom(ListWithoutRaising, 1)
            geo   == DataRows(geo_file)
            bety  == DataRows(bety_file)
        IN  /\ processed_plots = PlotsFrom(check_md.list_files, 1)
            /\ total_files = Len(check_md.list_files)
            /\ Len(geo) = Len(pairs)
            /\ Len(bety) = Len(pairs)
            /\ \A k \in 1..Len(pairs) :
                   /\ Pair(geo[k].source, geo[k].site) = pairs[k]
                   /\ bety[k].site = pairs[k].site

\* a plot raised, and rows were written for the next plot of the same image
\* and for a plot of a later file
C16_Witness ==
    /\ ProcessReturned
    /\ Len(check_md.list_files) = 2
    /\ Len(check_md.list_files[1].overlap_plots) = 2
    /\ Raises(check_md.list_files[1].overlap_plots[1])
    /\ Len(DataRows(geo_file)) >= 2
    /\ DataRows(geo_file)[1].source = 1
    /\ DataRows(geo_file)[2].source = 2

====
